---- MODULE Spec2Model ----
(***************************************************************************)
(* Contract Risk Scanner (streamlit_app.py): the script run                *)
(* upload -> extract -> generate -> sanitize_and_parse -> present, and the *)
(* tolerant JSON recovery routine sanitize_and_parse.                      *)
(*                                                                         *)
(* Text is a sequence of one-character strings.  Positions are 1-based;    *)
(* Python's "not found" index -1 is position 0 here.                       *)
(*                                                                         *)
(* A Python value is a record [kind, n, s, items] of one shape, so that    *)
(* any two values can be compared:                                         *)
(*   None (JSON null)  kind "None"                                         *)
(*   bool              kind "bool",   n = 0 / 1                            *)
(*   int               kind "int",    n = the number                       *)
(*   str               kind "str",    s = the characters                   *)
(*   list              kind "list",   items = the elements                 *)
(*   dict              kind "dict",   items = the members in insertion     *)
(*                                    order, each kind "member" with       *)
(*                                    s = key, items = <<value>>           *)
(***************************************************************************)
EXTENDS Integers, Sequences, FiniteSets, TLC

\* ------------------------------------------------------------------ bounds

\* Longest text of the exhaustively enumerated inputs of sanitize_and_parse.
MaxLen == 4

\* Longest text of the exhaustively enumerated model responses of a script run.
MaxRespLen == 3

\* Padded inputs put a quote QuoteWindow - PadSlack .. QuoteWindow + PadSlack
\* characters into the text.
PadSlack == 1

\* text[:200] in the quote guard.
QuoteWindow == 200

\* ------------------------------------------------------------- characters

DQ == "\""

SQ == "'"

\* json.decoder.WHITESPACE, str.strip() and the regex class \s, on the
\* characters the inputs are built from.
Whitespace == {" ", "\t", "\n", "\r"}

\* The regex class \d and the digits of a JSON number.
Digits == {"0", "1", "2", "3", "4", "5", "6", "7", "8", "9"}

DigitValue(c) ==
    CASE c = "0" -> 0 [] c = "1" -> 1 [] c = "2" -> 2 [] c = "3" -> 3
      [] c = "4" -> 4 [] c = "5" -> 5 [] c = "6" -> 6 [] c = "7" -> 7
      [] c = "8" -> 8 [] c = "9" -> 9

Min(a, b) == IF a <= b THEN a ELSE b

\* s[a-1:b] of Python, clipped to the text like a Python slice.
Slice(s, a, b) == IF a > Min(b, Len(s)) THEN <<>> ELSE SubSeq(s, a, Min(b, Len(s)))

Contains(s, c) == \E i \in 1..Len(s) : s[i] = c

\* str.find: the first position of c, 0 when there is none.
Find(s, c) ==
    IF Contains(s, c)
    THEN CHOOSE i \in 1..Len(s) : s[i] = c /\ \A j \in 1..(i - 1) : s[j] # c
    ELSE 0

\* str.rfind: the last position of c, 0 when there is none.
RFind(s, c) ==
    IF Contains(s, c)
    THEN CHOOSE i \in 1..Len(s) : s[i] = c /\ \A j \in (i + 1)..Len(s) : s[j] # c
    ELSE 0

\* str.strip(): leading and trailing whitespace removed.
Strip(s) ==
    IF \A i \in 1..Len(s) : s[i] \in Whitespace
    THEN <<>>
    ELSE LET a == CHOOSE i \in 1..Len(s) :
                      s[i] \notin Whitespace /\ \A j \in 1..(i - 1) : s[j] \in Whitespace
             b == CHOOSE i \in 1..Len(s) :
                      s[i] \notin Whitespace /\ \A j \in (i + 1)..Len(s) : s[j] \in Whitespace
         IN  SubSeq(s, a, b)

\* The first position at or after i that holds no character of class, Len(s) + 1
\* when the run of class goes to the end of the text.
SkipClass(s, i, class) ==
    CHOOSE j \in i..(Len(s) + 1) :
        /\ (j <= Len(s) => s[j] \notin class)
        /\ \A k \in i..(j - 1) : s[k] \in class

\* ------------------------------------------------------------ json.loads

PyNone == [kind |-> "None", n |-> 0, s |-> <<>>, items |-> <<>>]

PyBool(b) == [kind |-> "bool", n |-> IF b THEN 1 ELSE 0, s |-> <<>>, items |-> <<>>]

PyInt(k) == [kind |-> "int", n |-> k, s |-> <<>>, items |-> <<>>]

PyStr(t) == [kind |-> "str", n |-> 0, s |-> t, items |-> <<>>]

PyList(vs) == [kind |-> "list", n |-> 0, s |-> <<>>, items |-> vs]

PyDict(ms) == [kind |-> "dict", n |-> 0, s |-> <<>>, items |-> ms]

Member(key, v) == [kind |-> "member", n |-> 0, s |-> key, items |-> <<v>>]

\* dict(pairs): a repeated key keeps its first place and takes the last value.
DictSet(ms, key, v) ==
    IF \E p \in 1..Len(ms) : ms[p].s = key
    THEN [p \in 1..Len(ms) |-> IF ms[p].s = key THEN Member(key, v) ELSE ms[p]]
    ELSE Append(ms, Member(key, v))

\* dict.get(key): the value under key, None when the key is absent.
DictGet(d, key) ==
    IF \E p \in 1..Len(d.items) : d.items[p].s = key
    THEN d.items[CHOOSE p \in 1..Len(d.items) : d.items[p].s = key].items[1]
    ELSE PyNone

\* A decoding step: ok, the value, and the position after it.
Fail == [ok |-> FALSE, val |-> PyNone, end |-> 0]

Got(v, e) == [ok |-> TRUE, val |-> v, end |-> e]

\* scanstring from the position after the opening quote.  The inputs hold no
\* backslash and no control character, so the content runs to the next quote.
ScanString(s, i) ==
    LET j == SkipClass(s, i, {s[k] : k \in 1..Len(s)} \ {DQ})
    IN  IF j > Len(s) THEN Fail ELSE Got(PyStr(Slice(s, i, j - 1)), j + 1)

RECURSIVE DecimalValue(_)
DecimalValue(ds) ==
    IF ds = <<>> THEN 0
    ELSE 10 * DecimalValue(SubSeq(ds, 1, Len(ds) - 1)) + DigitValue(ds[Len(ds)])

\* NUMBER_RE (0|[1-9]\d*) at a digit; the inputs hold no sign, fraction or
\* exponent character.
ScanNumber(s, i) ==
    IF s[i] = "0" THEN Got(PyInt(0), i + 1)
    ELSE LET j == SkipClass(s, i, Digits)
         IN  Got(PyInt(DecimalValue(Slice(s, i, j - 1))), j)

RECURSIVE ScanOnce(_, _)
RECURSIVE ArrayItems(_, _, _)
RECURSIVE ObjectMembers(_, _, _)

\* JSONArray from the position after "[".
JSONArray(s, i) ==
    LET j == SkipClass(s, i, Whitespace)
    IN  IF j <= Len(s) /\ s[j] = "]" THEN Got(PyList(<<>>), j + 1)
        ELSE ArrayItems(s, j, <<>>)

ArrayItems(s, i, acc) ==
    LET r == ScanOnce(s, i)
    IN  IF ~r.ok THEN Fail
        ELSE LET j == SkipClass(s, r.end, Whitespace)
             IN  IF j > Len(s) THEN Fail
                 ELSE IF s[j] = "]" THEN Got(PyList(Append(acc, r.val)), j + 1)
                 ELSE IF s[j] = ","
                      THEN ArrayItems(s, SkipClass(s, j + 1, Whitespace), Append(acc, r.val))
                 ELSE Fail

\* JSONObject from the position after "{".
JSONObject(s, i) ==
    LET j == SkipClass(s, i, Whitespace)
    IN  IF j > Len(s) THEN Fail
        ELSE IF s[j] = "}" THEN Got(PyDict(<<>>), j + 1)
        ELSE IF s[j] = DQ THEN ObjectMembers(s, j + 1, <<>>)
        ELSE Fail

\* One "key": value pair from the position after the key's opening quote, then
\* "}" or "," and the next pair.
ObjectMembers(s, i, acc) ==
    LET k == ScanString(s, i)
    IN  IF ~k.ok THEN Fail
        ELSE LET c == SkipClass(s, k.end, Whitespace)
             IN  IF c > Len(s) \/ s[c] # ":" THEN Fail
                 ELSE LET v == ScanOnce(s, SkipClass(s, c + 1, Whitespace))
                      IN  IF ~v.ok THEN Fail
                          ELSE LET d == SkipClass(s, v.end, Whitespace)
                                   ms == DictSet(acc, k.val.s, v.val)
                               IN  IF d > Len(s) THEN Fail
                                   ELSE IF s[d] = "}" THEN Got(PyDict(ms), d + 1)
                                   ELSE IF s[d] = ","
                                        THEN LET e == SkipClass(s, d + 1, Whitespace)
                                             IN  IF e <= Len(s) /\ s[e] = DQ
                                                 THEN ObjectMembers(s, e + 1, ms)
                                                 ELSE Fail
                                   ELSE Fail

\* scanner.py_make_scanner._scan_once: the value that starts at position i.
ScanOnce(s, i) ==
    IF i > Len(s) THEN Fail
    ELSE IF s[i] = DQ THEN ScanString(s, i + 1)
    ELSE IF s[i] = "{" THEN JSONObject(s, i + 1)
    ELSE IF s[i] = "[" THEN JSONArray(s, i + 1)
    ELSE IF Slice(s, i, i + 3) = <<"n", "u", "l", "l">> THEN Got(PyNone, i + 4)
    ELSE IF Slice(s, i, i + 3) = <<"t", "r", "u", "e">> THEN Got(PyBool(TRUE), i + 4)
    ELSE IF Slice(s, i, i + 4) = <<"f", "a", "l", "s", "e">> THEN Got(PyBool(FALSE), i + 5)
    ELSE IF s[i] \in Digits THEN ScanNumber(s, i)
    ELSE Fail

\* json.loads(s): JSONDecoder.decode.  ok = FALSE is JSONDecodeError; the whole
\* text must be one value between optional whitespace ("Extra data" otherwise).
JsonLoads(s) ==
    LET r == ScanOnce(s, SkipClass(s, 1, Whitespace))
    IN  IF r.ok /\ SkipClass(s, r.end, Whitespace) = Len(s) + 1
        THEN [ok |-> TRUE, val |-> r.val]
        ELSE [ok |-> FALSE, val |-> PyNone]

\* ------------------------------------------------------ sanitize_and_parse

\* Where the match of  \s*\d+\s*:  that starts right after position i ends,
\* 0 when there is none.  The three classes are disjoint, so the greedy match
\* is the only one.
LabelEnd(s, i) ==
    LET a == SkipClass(s, i + 1, Whitespace)
        b == SkipClass(s, a, Digits)
        c == SkipClass(s, b, Whitespace)
    IN  IF b > a /\ c <= Len(s) /\ s[c] = ":" THEN c ELSE 0

\* re.sub(delim \s*\d+\s*: , delim, s).  A match holds its delimiter first and
\* then only whitespace, digits and ":", so no match starts inside another and
\* the leftmost non-overlapping matches are all the matches: the result is the
\* text without the characters that follow the delimiter in a match.
SubLabels(s, delim) ==
    LET starts  == {i \in 1..Len(s) : s[i] = delim /\ LabelEnd(s, i) > 0}
        removed == UNION {(i + 1)..LabelEnd(s, i) : i \in starts}
        Kept(k) == k \notin removed
        keep    == SelectSeq([k \in 1..Len(s) |-> k], Kept)
    IN  [j \in 1..Len(keep) |-> s[keep[j]]]

\* The three substitutions, in the order of the code: after "[", after ",",
\* after "{".
RemoveNumericLabels(text) ==
    SubLabels(SubLabels(SubLabels(text, "["), ","), "{")

\* The guard with the window one character short (text[:199]).
QuoteGuard_ShortWindow(text) ==
    Contains(text, SQ) /\ ~Contains(Slice(text, 1, QuoteWindow - 1), DQ)

\* The guard of the quote conversion.
QuoteGuard(text) ==
    Contains(text, SQ) /\ ~Contains(Slice(text, 1, QuoteWindow), DQ)

\* str.replace("'", '"').
ReplaceQuotes(text) ==
    [i \in 1..Len(text) |-> IF text[i] = SQ THEN DQ ELSE text[i]]

NormalizeQuotes(text) ==
    IF QuoteGuard(text) THEN ReplaceQuotes(text) ELSE text

\* The text the candidate is cut from: stripped, labels removed, quotes
\* converted.
RepairedText(analysis_raw) ==
    NormalizeQuotes(RemoveNumericLabels(Strip(analysis_raw)))

\* The candidate cut at the first "}" (find where the code has rfind).
Candidate_FirstClose(text) ==
    LET start_obj == Find(text, "{")
        end_obj   == Find(text, "}")
        start_arr == Find(text, "[")
        end_arr   == RFind(text, "]")
    IN  IF start_obj # 0 /\ end_obj # 0 /\ end_obj > start_obj
        THEN SubSeq(text, start_obj, end_obj)
        ELSE IF start_arr # 0 /\ end_arr # 0 /\ end_arr > start_arr
        THEN SubSeq(text, start_arr, end_arr)
        ELSE <<>>

\* candidate: the object span if there is one, else the array span, else None
\* (the empty text here; a span is never empty).
Candidate(text) ==
    LET start_obj == Find(text, "{")
        end_obj   == RFind(text, "}")
        start_arr == Find(text, "[")
        end_arr   == RFind(text, "]")
    IN  IF start_obj # 0 /\ end_obj # 0 /\ end_obj > start_obj
        THEN SubSeq(text, start_obj, end_obj)
        ELSE IF start_arr # 0 /\ end_arr # 0 /\ end_arr > start_arr
        THEN SubSeq(text, start_arr, end_arr)
        ELSE <<>>

\* The decode of the candidate; None when there is no candidate or it does not
\* decode.
ParseCandidate(candidate) ==
    IF candidate # <<>> /\ JsonLoads(candidate).ok
    THEN JsonLoads(candidate).val
    ELSE PyNone

\* sanitize_and_parse without the direct parse.
SanitizeAndParse_NoDirect(analysis_raw) ==
    ParseCandidate(Candidate(RepairedText(analysis_raw)))

\* sanitize_and_parse: the direct parse, else the decode of the candidate of
\* the repaired text.
SanitizeAndParse(analysis_raw) ==
    IF JsonLoads(analysis_raw).ok
    THEN JsonLoads(analysis_raw).val
    ELSE ParseCandidate(Candidate(RepairedText(analysis_raw)))

\* -------------------------------------------------------------- json.dumps

DigitChars == <<"0", "1", "2", "3", "4", "5", "6", "7", "8", "9">>

\* str(k) of a natural number.
RECURSIVE IntText(_)
IntText(k) ==
    IF k < 10 THEN <<DigitChars[k + 1]>>
    ELSE IntText(k \div 10) \o <<DigitChars[(k % 10) + 1]>>

\* The line break and indentation json.dumps(indent=2) puts before an item at
\* nesting depth level.
Indent(level) == <<"\n">> \o [i \in 1..(2 * level) |-> " "]

RECURSIVE Dumps(_, _)
RECURSIVE DumpItems(_, _, _)

\* The items from position i on, each on its own line, separated by ",".
DumpItems(items, i, level) ==
    LET it   == items[i]
        body == IF it.kind = "member"
                THEN <<DQ>> \o it.s \o <<DQ, ":", " ">> \o Dumps(it.items[1], level)
                ELSE Dumps(it, level)
    IN  Indent(level) \o body
            \o (IF i < Len(items) THEN <<",">> \o DumpItems(items, i + 1, level) ELSE <<>>)

\* json.dumps(v, indent=2, ensure_ascii=False) at nesting depth level.  The
\* strings of the inputs hold nothing that is escaped.
Dumps(v, level) ==
    CASE v.kind = "None" -> <<"n", "u", "l", "l">>
      [] v.kind = "bool" -> IF v.n = 1 THEN <<"t", "r", "u", "e">>
                                       ELSE <<"f", "a", "l", "s", "e">>
      [] v.kind = "int"  -> IntText(v.n)
      [] v.kind = "str"  -> <<DQ>> \o v.s \o <<DQ>>
      [] v.kind = "list" ->
            IF v.items = <<>> THEN <<"[", "]">>
            ELSE <<"[">> \o DumpItems(v.items, 1, level + 1) \o Indent(level) \o <<"]">>
      [] v.kind = "dict" ->
            IF v.items = <<>> THEN <<"{", "}">>
            ELSE <<"{">> \o DumpItems(v.items, 1, level + 1) \o Indent(level) \o <<"}">>

JsonDumps(v) == Dumps(v, 0)

\* ------------------------------------------------------------------ inputs

\* The characters of the exhaustively enumerated texts.
Alphabet == {"{", "}", "[", "]", ":", ",", DQ, SQ, " ", "0", "1", "a"}

AllStrings(n) == UNION {[1..k -> Alphabet] : k \in 0..n}

Pad(c, k) == [i \in 1..k |-> c]

ObjectText ==
    <<"{", DQ, "a", DQ, ":", "1", "}">>

NestedObject ==
    <<"{", DQ, "a", DQ, ":", "{", "}", "}">>

LabelledScalars ==
    <<"[", "0", ":", "1", ",", " ", "1", ":", "0", "]">>

LabelledMember ==
    <<"{", "0", ":", DQ, "a", DQ, ":", "1", "}">>

SingleQuotedObject ==
    <<"{", SQ, "a", SQ, ":", " ", SQ, "b", SQ, "}">>

SingleQuotedArray ==
    <<"[", SQ, "a", SQ, "]">>

SingleQuotedNested ==
    <<"[", "{", SQ, "a", SQ, ":", "1", "}", "]">>

MixedQuotes ==
    <<"{", DQ, "a", DQ, ":", SQ, "b", SQ, "}">>

LabelInString ==
    <<"{", DQ, "a", DQ, ":", DQ, ",", "1", ":", DQ, "}">>

LabelInSingleQuoted ==
    <<"{", SQ, "a", SQ, ":", SQ, ",", "1", ":", SQ, "}">>

ApostropheInString ==
    <<"{", DQ, "a", DQ, ":", DQ, SQ, DQ, "}">>

ClausesObject ==
    <<"{", DQ, "c", "l", "a", "u", "s", "e", "s", DQ, ":", " ", "[", "]", "}">>

\* The key the presenter looks up (line 234).
SummaryKey ==
    <<"a", "c", "t", "i", "o", "n", "a", "b", "l", "e", "_", "r", "e", "c", "o", "m", "m",
      "e", "n", "d", "a", "t", "i", "o", "n", "s", "_", "s", "u", "m", "m", "a", "r", "y">>

SummaryObject ==
    <<"{", DQ>> \o SummaryKey \o <<DQ, ":", "[", DQ, "a", DQ, "]", "}">>

EmptySummaryObject ==
    <<"{", DQ>> \o SummaryKey \o <<DQ, ":", "[", "]", "}">>

NullText ==
    <<"n", "u", "l", "l">>

TrueText ==
    <<"t", "r", "u", "e">>

Preamble ==
    <<"S", "u", "r", "e", ",", " ", "h", "e", "r", "e", " ", "i", "s", " ", "t", "h", "e",
      " ", "J", "S", "O", "N", ":", " ">>

Closing ==
    <<" ", "H", "o", "p", "e", " ", "t", "h", "a", "t", " ", "h", "e", "l", "p", "s", "!">>

\* Object texts that are the elements of a labelled array.
ElementLists ==
    {<<ObjectText>>, <<ObjectText, NestedObject>>, <<<<"{", "}">>, ObjectText>>}

\* "[" label ":" element "," label ":" element ... "]" with the labels 0, 1, ...
\* when labelled, and the same array text without the labels otherwise.
RECURSIVE ArrayElements(_, _, _)
ArrayElements(els, i, labelled) ==
    IF i > Len(els) THEN <<>>
    ELSE (IF labelled THEN IntText(i - 1) \o <<":">> ELSE <<>>) \o els[i]
            \o (IF i < Len(els) THEN <<",">> ELSE <<>>)
            \o ArrayElements(els, i + 1, labelled)

ArrayText(els, labelled) == <<"[">> \o ArrayElements(els, 1, labelled) \o <<"]">>

LabelledArrays == {ArrayText(els, TRUE) : els \in ElementLists}

Cores ==
    {ObjectText, NestedObject, LabelledScalars, LabelledMember, SingleQuotedObject,
     SingleQuotedArray, SingleQuotedNested, MixedQuotes, LabelInString,
     LabelInSingleQuoted, ApostropheInString, ClausesObject, SummaryObject,
     EmptySummaryObject, NullText, TrueText, <<"1", "0">>, <<DQ, "a", DQ>>}
        \cup LabelledArrays

Pres == {<<>>, <<" ">>, <<"a", " ">>, <<"[">>, <<DQ>>, <<SQ>>, Preamble}

Posts == {<<>>, <<" ">>, <<" ", "a">>, <<"]">>, <<DQ>>, <<"}">>, Closing}

\* Commentary long enough to move the text behind it across the quote window:
\* letters, whitespace (stripped), a numeric label (removed), an apostrophe.
PadLengths == (QuoteWindow - 2 - PadSlack)..(QuoteWindow - 2 + PadSlack)

PadPres ==
    UNION {{Pad("a", k), Pad(" ", k), <<",">> \o Pad("0", k) \o <<":">>,
            <<SQ>> \o Pad("a", k - 1)} : k \in PadLengths}

PadCores ==
    {ObjectText, SingleQuotedObject, MixedQuotes, ApostropheInString, LabelInString,
     SingleQuotedArray, <<DQ, "a", DQ>>}

Compose(pres, cores, posts) ==
    {pre \o core \o post : pre \in pres, core \in cores, post \in posts}

\* The texts sanitize_and_parse is called on.
Inputs ==
    AllStrings(MaxLen) \cup Compose(Pres, Cores, Posts)
        \cup Compose(PadPres, PadCores, {<<>>, <<" ", "a">>})

\* The texts the generative model answers with in a script run.
Responses == AllStrings(MaxRespLen) \cup Compose(Pres, Cores, Posts)

\* result.document.text of the extraction (None counts as "").
DocTexts == {<<>>, <<" ">>, <<"a">>, <<" ", "a", " ">>}

\* -------------------------------------------------------------- script run

VARIABLES
    pc,                   \* where the script run is
    steps,                \* the pipeline steps started so far, with their outcomes
    ui,                   \* the st.* calls made so far
    blob_uploaded,        \* the PDF is in the bucket
    extracted_text,       \* extracted_text (line 149)
    environ_credentials,  \* GOOGLE_APPLICATION_CREDENTIALS names a temporary key file
    response_text,        \* response.text
    analysis_raw,         \* analysis_raw (line 206)
    text,                 \* sanitize_and_parse's text when the candidate is cut
    candidate,            \* sanitize_and_parse's candidate
    analysis_obj,         \* analysis_obj (line 209)
    text_area,            \* the text of the "Raw Gemini Output" area
    json_view,            \* the value st.json shows
    summary_shown,        \* the recommendations listed under the summary header
    downloads,            \* the download buttons offered
    files                 \* the files written

vars ==
    <<pc, steps, ui, blob_uploaded, extracted_text, environ_credentials, response_text,
      analysis_raw, text, candidate, analysis_obj, text_area, json_view, summary_shown,
      downloads, files>>

recovery_vars == <<analysis_raw, text, candidate, analysis_obj>>

output_vars == <<text_area, json_view, summary_shown, downloads, files>>

Ui(call, msg) == [call |-> call, msg |-> msg]

Step(name, outcome) == [step |-> name, outcome |-> outcome]

Download(file_name, data, mime) == [file_name |-> file_name, data |-> data, mime |-> mime]

File(name, content) == [name |-> name, content |-> content]

\* The except branch of the analysis block (lines 240-242).
AnalysisFailed == <<Ui("error", "AI analysis failed"), Ui("exception", "")>>

Init ==
    /\ pc = "secrets"
    /\ steps = <<>>
    /\ ui = <<>>
    /\ blob_uploaded = FALSE
    /\ extracted_text = <<>>
    /\ environ_credentials = FALSE
    /\ response_text = <<>>
    /\ analysis_raw = <<>>
    /\ text = <<>>
    /\ candidate = <<>>
    /\ analysis_obj = PyNone
    /\ text_area = <<>>
    /\ json_view = PyNone
    /\ summary_shown = <<>>
    /\ downloads = <<>>
    /\ files = {}

\* Lines 38-43: the service account must be in the secrets.
CheckSecrets ==
    /\ pc = "secrets"
    /\ \/ /\ pc' = "credentials"
          /\ ui' = ui
       \/ /\ pc' = "stopped"
          /\ ui' = Append(ui, Ui("error", "Google service account not found in Streamlit secrets."))
    /\ UNCHANGED <<steps, blob_uploaded, extracted_text, environ_credentials, response_text,
                   recovery_vars, output_vars>>

\* Lines 45-51: the credentials are built from the secrets.
BuildCredentials ==
    /\ pc = "credentials"
    /\ \/ /\ pc' = "clients"
          /\ ui' = ui
       \/ /\ pc' = "stopped"
          /\ ui' = Append(ui, Ui("error", "Failed to construct credentials from secrets"))
    /\ UNCHANGED <<steps, blob_uploaded, extracted_text, environ_credentials, response_text,
                   recovery_vars, output_vars>>

\* Lines 56-61: the storage and Document AI clients.
InitClients ==
    /\ pc = "clients"
    /\ \/ /\ pc' = "uploader"
          /\ ui' = ui
       \/ /\ pc' = "stopped"
          /\ ui' = Append(ui, Ui("error", "Failed to initialize Google clients"))
    /\ UNCHANGED <<steps, blob_uploaded, extracted_text, environ_credentials, response_text,
                   recovery_vars, output_vars>>

\* Lines 116-121: the file uploader; without a file the run stops.
FileUploader ==
    /\ pc = "uploader"
    /\ \/ /\ pc' = "upload"
          /\ ui' = ui
       \/ /\ pc' = "stopped"
          /\ ui' = Append(ui, Ui("info", "Upload a PDF for analysis."))
    /\ UNCHANGED <<steps, blob_uploaded, extracted_text, environ_credentials, response_text,
                   recovery_vars, output_vars>>

\* The upload whose failure does not stop the run.
UploadToGcs_Continues ==
    /\ pc = "upload"
    /\ \/ /\ blob_uploaded' = TRUE
          /\ steps' = Append(steps, Step("Upload", "ok"))
          /\ ui' = Append(ui, Ui("success", "File Uploaded"))
          /\ pc' = "extract"
       \/ /\ blob_uploaded' = FALSE
          /\ steps' = Append(steps, Step("Upload", "failed"))
          /\ ui' = Append(ui, Ui("error", "Upload failed"))
          /\ pc' = "extract"
    /\ UNCHANGED <<extracted_text, environ_credentials, response_text, recovery_vars,
                   output_vars>>

\* Lines 124-130 (upload_to_gcs_fileobj, lines 106-114).
UploadToGcs ==
    /\ pc = "upload"
    /\ \/ /\ blob_uploaded' = TRUE
          /\ steps' = Append(steps, Step("Upload", "ok"))
          /\ ui' = Append(ui, Ui("success", "File Uploaded"))
          /\ pc' = "extract"
       \/ /\ blob_uploaded' = FALSE
          /\ steps' = Append(steps, Step("Upload", "failed"))
          /\ ui' = Append(ui, Ui("error", "Upload failed"))
          /\ pc' = "stopped"
    /\ UNCHANGED <<extracted_text, environ_credentials, response_text, recovery_vars,
                   output_vars>>

\* Lines 132-163: the blob is read back and sent to Document AI.
ExtractText ==
    /\ pc = "extract"
    /\ \/ /\ steps' = Append(steps, Step("Extract", "failed"))
          /\ ui' = ui \o <<Ui("info", "Extracting text from contract..."),
                           Ui("error", "Document AI processing failed")>>
          /\ pc' = "stopped"
          /\ UNCHANGED <<extracted_text, downloads, files>>
       \/ /\ steps' = Append(steps, Step("Extract", "failed"))
          /\ ui' = ui \o <<Ui("info", "Extracting text from contract..."),
                           Ui("error", "Document AI returned no document object.")>>
          /\ pc' = "stopped"
          /\ UNCHANGED <<extracted_text, downloads, files>>
       \/ \E doc_text \in DocTexts :
            /\ Strip(doc_text) = <<>>
            /\ steps' = Append(steps, Step("Extract", "failed"))
            /\ ui' = ui \o <<Ui("info", "Extracting text from contract..."),
                             Ui("error", "Document AI extracted no text.")>>
            /\ pc' = "stopped"
            /\ UNCHANGED <<extracted_text, downloads, files>>
       \/ \E doc_text \in DocTexts :
            /\ Strip(doc_text) # <<>>
            /\ extracted_text' = Strip(doc_text)
            /\ files' = files \cup {File("extracted_contract_text.txt", Strip(doc_text))}
            /\ steps' = Append(steps, Step("Extract", "ok"))
            /\ ui' = ui \o <<Ui("info", "Extracting text from contract..."),
                             Ui("success", "Text extraction completed successfully.")>>
            /\ downloads' = Append(downloads,
                                Download("extracted_contract_text.txt", Strip(doc_text), ""))
            /\ pc' = "button"
    /\ UNCHANGED <<blob_uploaded, environ_credentials, response_text, recovery_vars,
                   text_area, json_view, summary_shown>>

\* Lines 165-166: the analysis runs only in a run the button triggered.
AnalysisButton ==
    /\ pc = "button"
    /\ ui' = Append(ui, Ui("header", "AI Risk Analysis"))
    /\ \/ pc' = "vertex_init"
       \/ pc' = "done"
    /\ UNCHANGED <<steps, blob_uploaded, extracted_text, environ_credentials, response_text,
                   recovery_vars, output_vars>>

\* Lines 170-181: vertexai.init, with the temporary key file when init takes no
\* credentials, and the model object.  The key file and the environment
\* variable stay.
VertexInit ==
    /\ pc = "vertex_init"
    /\ \/ /\ pc' = "generate"
          /\ UNCHANGED <<ui, environ_credentials>>
       \/ /\ environ_credentials' = TRUE
          /\ pc' = "generate"
          /\ ui' = ui
       \/ /\ environ_credentials' = TRUE
          /\ pc' = "done"
          /\ ui' = ui \o AnalysisFailed
       \/ /\ pc' = "done"
          /\ ui' = ui \o AnalysisFailed
          /\ UNCHANGED environ_credentials
    /\ UNCHANGED <<steps, blob_uploaded, extracted_text, response_text, recovery_vars,
                   output_vars>>

\* Lines 183-206: the prompt, generate_content and response.text.strip().
GenerateContent ==
    /\ pc = "generate"
    /\ \/ /\ steps' = Append(steps, Step("Analyzer", "failed"))
          /\ ui' = ui \o AnalysisFailed
          /\ pc' = "done"
          /\ UNCHANGED <<response_text, analysis_raw>>
       \/ \E r \in Responses :
            /\ response_text' = r
            /\ analysis_raw' = Strip(r)
            /\ steps' = Append(steps, Step("Analyzer", "ok"))
            /\ ui' = ui
            /\ pc' = "recover"
    /\ UNCHANGED <<blob_uploaded, extracted_text, environ_credentials, text, candidate,
                   analysis_obj, output_vars>>

\* Line 209: analysis_obj = sanitize_and_parse(analysis_raw) (lines 66-103).
RecoverResult ==
    /\ pc = "recover"
    /\ analysis_obj' = SanitizeAndParse(analysis_raw)
    /\ text' = IF JsonLoads(analysis_raw).ok THEN <<>> ELSE RepairedText(analysis_raw)
    /\ candidate' = IF JsonLoads(analysis_raw).ok THEN <<>>
                    ELSE Candidate(RepairedText(analysis_raw))
    /\ steps' = Append(steps, Step("Recovery", "ok"))
    /\ pc' = "present"
    /\ UNCHANGED <<ui, blob_uploaded, extracted_text, environ_credentials, response_text,
                   analysis_raw, output_vars>>

\* The presenter that treats "not recoverable" as a failure of the analysis.
PresentResult_HardFailure ==
    /\ pc = "present"
    /\ \/ /\ analysis_obj = PyNone
          /\ ui' = ui \o AnalysisFailed
          /\ steps' = Append(steps, Step("Present", "failed"))
          /\ UNCHANGED <<text_area, files, downloads, json_view, summary_shown>>
       \/ /\ analysis_obj # PyNone
          /\ files' = files \cup {File("contract_risk_analysis.json", JsonDumps(analysis_obj))}
          /\ json_view' = analysis_obj
          /\ downloads' = Append(downloads,
                              Download("contract_risk_analysis.json", JsonDumps(analysis_obj),
                                       "application/json"))
          /\ ui' = ui \o <<Ui("success", "Legal Risk Analysis Completed"), Ui("json", "")>>
          /\ steps' = Append(steps, Step("Present", "ok"))
          /\ UNCHANGED <<text_area, summary_shown>>
    /\ pc' = "done"
    /\ UNCHANGED <<blob_uploaded, extracted_text, environ_credentials, response_text,
                   recovery_vars>>

\* Lines 211-242: the raw fallback, or the structured result and, for a dict,
\* its summary; analysis_obj.get raises AttributeError on anything but a dict,
\* which the except branch reports.
PresentResult ==
    /\ pc = "present"
    /\ \/ /\ analysis_obj = PyNone
          /\ ui' = Append(ui, Ui("warning", "Gemini output could not be parsed as JSON."))
          /\ text_area' = analysis_raw
          /\ files' = files \cup {File("contract_risk_analysis.txt", analysis_raw)}
          /\ downloads' = Append(downloads,
                              Download("contract_risk_analysis.txt", analysis_raw, ""))
          /\ steps' = Append(steps, Step("Present", "ok"))
          /\ UNCHANGED <<json_view, summary_shown>>
       \/ /\ analysis_obj # PyNone
          /\ analysis_obj.kind = "dict"
          /\ files' = files \cup {File("contract_risk_analysis.json", JsonDumps(analysis_obj))}
          /\ json_view' = analysis_obj
          /\ downloads' = Append(downloads,
                              Download("contract_risk_analysis.json", JsonDumps(analysis_obj),
                                       "application/json"))
          /\ LET summary == DictGet(analysis_obj, SummaryKey)
             IN  IF summary.kind = "list" /\ summary.items # <<>>
                 THEN /\ summary_shown' = summary.items
                      /\ ui' = ui \o <<Ui("success", "Legal Risk Analysis Completed"),
                                       Ui("json", ""),
                                       Ui("subheader", "High-level Actionable Recommendations")>>
                 ELSE /\ summary_shown' = summary_shown
                      /\ ui' = ui \o <<Ui("success", "Legal Risk Analysis Completed"),
                                       Ui("json", "")>>
          /\ steps' = Append(steps, Step("Present", "ok"))
          /\ UNCHANGED text_area
       \/ /\ analysis_obj # PyNone
          /\ analysis_obj.kind # "dict"
          /\ files' = files \cup {File("contract_risk_analysis.json", JsonDumps(analysis_obj))}
          /\ json_view' = analysis_obj
          /\ downloads' = Append(downloads,
                              Download("contract_risk_analysis.json", JsonDumps(analysis_obj),
                                       "application/json"))
          /\ ui' = ui \o <<Ui("success", "Legal Risk Analysis Completed"), Ui("json", "")>>
                      \o AnalysisFailed
          /\ steps' = Append(steps, Step("Present", "failed"))
          /\ UNCHANGED <<text_area, summary_shown>>
    /\ pc' = "done"
    /\ UNCHANGED <<blob_uploaded, extracted_text, environ_credentials, response_text,
                   recovery_vars>>

Next ==
    \/ CheckSecrets
    \/ BuildCredentials
    \/ InitClients
    \/ FileUploader
    \/ UploadToGcs
    \/ ExtractText
    \/ AnalysisButton
    \/ VertexInit
    \/ GenerateContent
    \/ RecoverResult
    \/ PresentResult

\* One script run.
Spec == Init /\ [][Next]_vars

\* sanitize_and_parse called on any of the input texts.
InitParse ==
    /\ pc = "recover"
    /\ analysis_raw \in Inputs
    /\ steps = <<>>
    /\ ui = <<>>
    /\ blob_uploaded = FALSE
    /\ extracted_text = <<>>
    /\ environ_credentials = FALSE
    /\ response_text = <<>>
    /\ text = <<>>
    /\ candidate = <<>>
    /\ analysis_obj = PyNone
    /\ text_area = <<>>
    /\ json_view = PyNone
    /\ summary_shown = <<>>
    /\ downloads = <<>>
    /\ files = {}

NextParse == RecoverResult

SpecParse == InitParse /\ [][NextParse]_vars

\* ------------------------------------------------------------------ claims

PipelineOrder == <<"Upload", "Extract", "Analyzer", "Recovery", "Present">>

\* The error messages with which a failure of the step is reported.
FailureMessages(step) ==
    CASE step = "Upload"   -> {"Upload failed"}
      [] step = "Extract"  -> {"Document AI processing failed",
                               "Document AI returned no document object.",
                               "Document AI extracted no text."}
      [] OTHER             -> {"AI analysis failed"}

Reported(msgs) == \E k \in 1..Len(ui) : ui[k].call = "error" /\ ui[k].msg \in msgs

Offered(file_name, data) ==
    \E k \in 1..Len(downloads) :
        downloads[k].file_name = file_name /\ downloads[k].data = data

Count(s, c) == Cardinality({i \in 1..Len(s) : s[i] = c})

NoBrackets(s) == \A i \in 1..Len(s) : s[i] \notin {"{", "}", "[", "]"}

\* The text from the first "{" to the last "}" of s.
Embedded(s) == Slice(s, Find(s, "{"), RFind(s, "}"))

\* s is commentary without braces, valid JSON object text, commentary without
\* braces: the object text is then Embedded(s).
HasEmbeddedObject(s) ==
    /\ Find(s, "{") # 0
    /\ RFind(s, "}") > Find(s, "{")
    /\ JsonLoads(Embedded(s)).ok

Returned == pc = "present"

\* C1: in a script run the steps start in the order Upload, Extract, Analyzer
\* call, Result Recovery, Present, each at most once; a step starts only after
\* the one before it succeeded (the Analyzer call only with non-empty extracted
\* text); a failed Upload, Extract or Analyzer call is reported as an error and
\* ends the run with no later step and no second attempt.
C1_PipelineOrder ==
    /\ Len(steps) <= Len(PipelineOrder)
    /\ \A k \in 1..Len(steps) : steps[k].step = PipelineOrder[k]
    /\ \A k \in 2..Len(steps) : steps[k - 1].outcome = "ok"
    /\ (Len(steps) >= 2 => blob_uploaded)
    /\ (Len(steps) >= 3 => extracted_text # <<>>)
    /\ \A k \in 1..Len(steps) :
          (steps[k].outcome = "failed" /\ steps[k].step \in {"Upload", "Extract", "Analyzer"})
              => /\ Reported(FailureMessages(steps[k].step))
                 /\ k = Len(steps)
                 /\ pc \in {"stopped", "done"}

\* A run in which all five steps ran.
C1_Witness == pc = "done" /\ Len(steps) = 5

C3_ValidJsonDirect ==
    (Returned /\ JsonLoads(analysis_raw).ok) => analysis_obj = JsonLoads(analysis_raw).val

\* A valid JSON object whose text the numeric-label removal would have changed.
C3_Witness ==
    /\ Returned
    /\ JsonLoads(analysis_raw).ok
    /\ analysis_obj.kind = "dict"
    /\ RemoveNumericLabels(Strip(analysis_raw)) # Strip(analysis_raw)

\* C4: a value sanitize_and_parse returns is a JSON object or a JSON array
\* decoded from valid JSON text, never a scalar.
C4_ObjectOrArrayOnly ==
    (Returned /\ analysis_obj # PyNone) => analysis_obj.kind \in {"dict", "list"}

\* What the code returns: the strict decode of the whole input, of any JSON
\* type, or else the strict decode of the candidate, which is an object or an
\* array.
C4_DecodedValue ==
    (Returned /\ analysis_obj # PyNone)
        => \/ /\ JsonLoads(analysis_raw).ok
              /\ analysis_obj = JsonLoads(analysis_raw).val
           \/ /\ ~JsonLoads(analysis_raw).ok
              /\ candidate # <<>>
              /\ JsonLoads(candidate).ok
              /\ analysis_obj = JsonLoads(candidate).val
              /\ analysis_obj.kind \in {"dict", "list"}

\* C5: for array text whose elements are objects, each behind an integer label
\* and a colon, sanitize_and_parse returns the array decoded from the text
\* without the labels.
C5_LabelledArrayDecoded ==
    Returned =>
        \A els \in ElementLists :
            analysis_raw = ArrayText(els, TRUE)
                => analysis_obj = JsonLoads(ArrayText(els, FALSE)).val

\* C6: for an input without a double quote that is valid JSON object or array
\* text once every single quote is a double quote, sanitize_and_parse returns
\* the strict decode of that double-quoted text.
C6_SingleQuotedDecoded ==
    (/\ Returned
     /\ ~Contains(analysis_raw, DQ)
     /\ JsonLoads(ReplaceQuotes(analysis_raw)).ok
     /\ JsonLoads(ReplaceQuotes(analysis_raw)).val.kind \in {"dict", "list"})
        => analysis_obj = JsonLoads(ReplaceQuotes(analysis_raw)).val

\* C7: with a double quote among the first 200 characters of the input, the
\* text the candidate is cut from keeps every single quote of the input.
C7_QuotesKept ==
    (/\ Returned
     /\ ~JsonLoads(analysis_raw).ok
     /\ Contains(Slice(analysis_raw, 1, QuoteWindow), DQ))
        => Count(text, SQ) = Count(analysis_raw, SQ)

\* The first double quote is the last character of the window, the single
\* quotes stay, the decode fails for them, and it would not have failed with
\* the quotes converted.
C7_Witness ==
    /\ Returned
    /\ Find(analysis_raw, DQ) = QuoteWindow
    /\ Contains(text, SQ)
    /\ analysis_obj = PyNone
    /\ JsonLoads(Candidate(ReplaceQuotes(text))).ok

\* C8 as claimed: for commentary, valid JSON object text, commentary, with no
\* brace in the commentary, sanitize_and_parse returns the strict decode of
\* the object text alone.
C8_EmbeddedObjectDecoded ==
    (Returned /\ HasEmbeddedObject(analysis_raw))
        => analysis_obj = JsonLoads(Embedded(analysis_raw)).val

\* C8 as amended: the same, for an input that is not valid JSON text as a
\* whole, whose object text the numeric-label removal leaves as it is, and
\* whose object text holds no single quote unless a double quote stands among
\* the first 200 characters of the stripped text without its labels.
C8_EmbeddedObjectRecovered ==
    (/\ Returned
     /\ HasEmbeddedObject(analysis_raw)
     /\ ~JsonLoads(analysis_raw).ok
     /\ RemoveNumericLabels(Embedded(analysis_raw)) = Embedded(analysis_raw)
     /\ \/ ~Contains(Embedded(analysis_raw), SQ)
        \/ Contains(Slice(RemoveNumericLabels(Strip(analysis_raw)), 1, QuoteWindow), DQ))
        => analysis_obj = JsonLoads(Embedded(analysis_raw)).val

\* The example of the specification: preamble, {"clauses": []}, closing words.
C8_Witness ==
    /\ Returned
    /\ analysis_raw = Preamble \o ClausesObject \o Closing
    /\ analysis_obj = JsonLoads(ClausesObject).val
    /\ analysis_obj.kind = "dict"

\* C9: an input without "{", "}", "[" and "]" is not recoverable.
C9_NoBracketsNotRecoverable ==
    (Returned /\ NoBrackets(analysis_raw)) => analysis_obj = PyNone

\* What the code does: an input without "{", "}", "[" and "]" is not
\* recoverable when it is not valid JSON text; a valid scalar is returned.
C9_NoBracketsInvalidNotRecoverable ==
    (Returned /\ NoBrackets(analysis_raw) /\ ~JsonLoads(analysis_raw).ok)
        => analysis_obj = PyNone

\* C10: a run in which upload, extraction and the generative call succeeded
\* and sanitize_and_parse returned a value of any JSON type shows the
\* structured result, offers its JSON download and reports no analysis
\* failure.
C10_AnyValuePresented ==
    (pc = "done" /\ Len(steps) = 5 /\ analysis_obj # PyNone)
        => /\ json_view = analysis_obj
           /\ Offered("contract_risk_analysis.json", JsonDumps(analysis_obj))
           /\ ~Reported({"AI analysis failed"})
====
